---- MODULE Spec2Model ----
(***************************************************************************)
(* Verification model of the EmaAgent streaming text-to-speech pipeline.   *)
(*                                                                         *)
(* Part A  audio/tts_manager.py   TTSManager: thread-per-segment           *)
(*         generation, priority play queue, pending_audio reorder map,     *)
(*         playback thread, reset().                                       *)
(* Part B  api/routes/chat.py     websocket_chat: receive loop, one task   *)
(*         per accepted message, token callback, audio worker, merge and   *)
(*         the terminal message.                                           *)
(* Part C  api/services/chat_service.py   ChatService.websocket_chat, the  *)
(*         same pipeline with its own start and end of turn.               *)
(* Part D  api/services/tts_service.py    APITTSService: per-segment files *)
(*         in the cache directory, merge, delayed deletion; the cache      *)
(*         clearing endpoint of api/routes/audio.py.                       *)
(* Part E  api/services/tts_service.py    APITTSService: reference-audio   *)
(*         upload under _upload_lock, reset_voice.                         *)
(* Part F  audio/tts_manager.py   TTSManager._ensure_voice_uploaded.       *)
(* Part G  api/routes/chat.py     on_token: fenced code removal and        *)
(*         sentence cutting, character by character.                       *)
(* Part H  audio/tts_manager.py   TTSManager.add_text_stream and flush:    *)
(*         sentence cutting, _clean_text, _is_valid_text.                  *)
(* Part I  agent/EmaAgent.py      EmaAgent.initialize_narrative.           *)
(***************************************************************************)
EXTENDS Integers, Sequences, FiniteSets, TLC

\* ---------------------------------------------------------------- bounds
\* Sentences that _trigger_generation may start within one turn.
MaxSentences == 3
\* Turns of the TTSManager (number of reset() calls plus one).
MaxTurns == 2
\* 'message' requests received over all connections.
MaxMessages == 2
\* 'stop' requests received over all connections.
MaxStops == 1
\* Tokens the producer streams within one turn.
MaxTokens == 2
\* Synthesis calls one request makes on the service (Part D).
MaxChunks == 2
\* Last tick of the clock (Part D).
MaxTime == 5
\* CHUNK_DELETE_DELAY_SECONDS, in ticks of the clock.
GraceTicks == 2
\* Reference-audio uploads the service starts (Part E).
MaxUploads == 3
\* reset_voice calls (Part E).
MaxResets == 2
\* Characters of the reply the producer streams (Part G).
MaxReply == 7
\* Characters of the text fed to the manager in one turn (Part H).
MaxStream == 4
\* Calls of initialize_narrative one coroutine makes (Part I).
MaxCalls == 2
\* reload_config calls (Part I).
MaxReloads == 1

(***************************************************************************)
(* Part A.  TTSManager                                                     *)
(***************************************************************************)
VARIABLES
    sentence_count,      \* self.sentence_count
    expected_index,      \* self.expected_index
    play_queue,          \* self.play_queue, a PriorityQueue of (index, path)
    pending_audio,       \* self.pending_audio, dict index -> path
    generation_threads,  \* self._generation_threads
    workers,             \* _generate_worker threads that have not returned
    main_pc,             \* position of the caller thread (feeding or in reset)
    pb_pc,               \* position of the playback thread
    pb_cur,              \* entry the playback thread is releasing
    turn,                \* number of the current turn (reset() calls + 1)
    released,            \* history: entries released at the cursor this turn, in order
    dropped              \* history: entries discarded as expired this turn

ttsVars == <<sentence_count, expected_index, play_queue, pending_audio,
             generation_threads, workers, main_pc, pb_pc, pb_cur, turn,
             released, dropped>>

VARIABLES
    ws,                  \* per connection: the locals of websocket_chat and of
                         \* its running _process_one_message task
    msg_count,           \* 'message' requests received so far
    stop_count           \* 'stop' requests received so far

wsVars == <<ws, msg_count, stop_count>>

VARIABLES
    now,                 \* time.time(), in ticks
    cache_dir,           \* files of paths.audio_cache_dir: name and content
    job,                 \* per request: its synthesis calls, audio_chunks, merge
    timers,              \* _delete_files_later worker threads that are sleeping
    deleted              \* history: per-segment files that were deleted

storeVars == <<now, cache_dir, job, timers, deleted>>

VARIABLES
    voice_uri,           \* APITTSService._voice_uri
    voice_uploaded,      \* APITTSService._voice_uploaded
    upload_lock,         \* APITTSService._upload_lock: 0 or the thread holding it
    caller,              \* per synthesis thread: position in generate, its voice
    upload_count,        \* reference-audio uploads started so far
    reset_count,         \* reset_voice calls completed so far
    epoch_uploads        \* history: successful uploads since the last reset_voice

voiceVars == <<voice_uri, voice_uploaded, upload_lock, caller, upload_count,
               reset_count, epoch_uploads>>

VARIABLES
    default_voice,       \* TTSManager.default_voice
    mgr_voice_uploaded,  \* TTSManager._voice_uploaded
    gen_worker,          \* per _generate_worker thread: position, voice it sent
    mgr_uploads          \* reference-audio uploads started by the manager

mgrVars == <<default_voice, mgr_voice_uploaded, gen_worker, mgr_uploads>>

VARIABLES
    reply,               \* the whole text the producer streams in this turn
    fed,                 \* characters of reply passed to on_token so far
    fenced_buffer,       \* fenced_buffer["value"], as positions of reply
    sentence_buffer,     \* sentence_buffer["value"], as positions of reply
    enqueued,            \* sentences put on audio_queue, as positions of reply
    flushed,             \* the tail flush after run_stream has run
    raw_sentences        \* history: the sentences cut off the sentence buffer,
                         \* before normalization, and the tail

segVars == <<reply, fed, fenced_buffer, sentence_buffer, enqueued, flushed,
             raw_sentences>>

VARIABLES
    stream,              \* the whole text the caller feeds to the manager
    stream_fed,          \* characters of stream passed to add_text_stream so far
    mgr_buffer,          \* TTSManager.buffer
    triggered,           \* history: (index, text) given to _generate_worker
    stream_flushed       \* flush() has processed the remainder

txtVars == <<stream, stream_fed, mgr_buffer, triggered, stream_flushed>>

VARIABLES
    narrative,           \* EmaAgent.narrative: 0 (None) or the object it holds
    narrative_init_lock, \* EmaAgent._narrative_init_lock: 0 or the holder
    init_caller,         \* per coroutine: position in initialize_narrative
    constructions,       \* history: NarrativeMemory objects constructed
    initialized,         \* history: objects whose initialize() has completed
    reloads              \* reload_config calls so far

agentVars == <<narrative, narrative_init_lock, init_caller, constructions,
               initialized, reloads>>

extVars == <<storeVars, voiceVars, mgrVars, segVars, txtVars, agentVars>>

vars == <<ttsVars, wsVars, extVars>>

\* The dispatcher's concurrency bound N of the specification (configurable,
\* "default small, e.g. 1-4"); TTSManager has no such setting.
SynthesisConcurrency == 2

\* Outcomes of the HTTP request made by _request_api.
Responses == {"audio", "http_error", "json", "undersized", "exception"}

\* An entry of play_queue / pending_audio: (index, path).  file = FALSE is
\* the None placeholder; a path is identified by the worker that wrote it.
NoEntry == [index |-> 0, file |-> FALSE, turn |-> 0]

\* _request_api returns True only for a 200 response that is not JSON and
\* whose file has at least 100 bytes; every other outcome returns False.
RequestApi(resp) == resp = "audio"

\* PriorityQueue.get: an entry with the least index.  Two entries with the
\* same index can only come from different turns; their relative order
\* depends on the file names (or raises on None), so either may come first.
QueueMin(q) == {e \in q : \A f \in q : e.index <= f.index}

PendingKeys(p) == {e.index : e \in p}
\* self.pending_audio[priority] = file_path
PendingPut(p, e) == {x \in p : x.index # e.index} \cup {e}

\* The three-way comparison of _playback_loop on an entry taken from the
\* queue: play it now, keep it in pending_audio, or discard it as expired.
ClassifyNoReorder(priority, expected) ==
    IF priority >= expected THEN "play" ELSE "drop"
Classify(priority, expected) ==
    IF priority = expected THEN "play"
    ELSE IF priority > expected THEN "stash"
    ELSE "drop"

InitTTS ==
    /\ sentence_count = 0
    /\ expected_index = 1
    /\ play_queue = {}
    /\ pending_audio = {}
    /\ generation_threads = {}
    /\ workers = {}
    /\ main_pc = "feed"
    /\ pb_pc = "loop"
    /\ pb_cur = NoEntry
    /\ turn = 1
    /\ released = <<>>
    /\ dropped = {}

\* _trigger_generation: take the next index and start a worker thread.
TriggerGeneration ==
    /\ main_pc = "feed"
    /\ sentence_count < MaxSentences
    /\ sentence_count' = sentence_count + 1
    /\ LET w == [turn |-> turn, index |-> sentence_count + 1] IN
         /\ generation_threads' = generation_threads \cup {w}
         /\ workers' = workers \cup {w}
    /\ UNCHANGED <<wsVars, extVars>>
    /\ UNCHANGED <<expected_index, play_queue, pending_audio, main_pc, pb_pc,
                   pb_cur, turn, released, dropped>>

\* A worker that puts nothing on the queue when the request fails.
GenerateWorkerNoPlaceholder(w, resp) ==
    /\ w \in workers
    /\ play_queue' = IF RequestApi(resp)
                     THEN play_queue \cup {[index |-> w.index, file |-> TRUE,
                                            turn |-> w.turn]}
                     ELSE play_queue
    /\ workers' = workers \ {w}
    /\ generation_threads' = generation_threads \ {w}
    /\ UNCHANGED <<wsVars, extVars>>
    /\ UNCHANGED <<sentence_count, expected_index, pending_audio, main_pc,
                   pb_pc, pb_cur, turn, released, dropped>>

\* A worker that reads the index from self.sentence_count when it submits,
\* instead of keeping the one it was started with.
GenerateWorkerSharedIndex(w, resp) ==
    /\ w \in workers
    /\ LET e == [index |-> sentence_count, file |-> RequestApi(resp), turn |-> w.turn] IN
         play_queue' = play_queue \cup {e}
    /\ workers' = workers \ {w}
    /\ generation_threads' = generation_threads \ {w}
    /\ UNCHANGED <<wsVars, extVars>>
    /\ UNCHANGED <<sentence_count, expected_index, pending_audio, main_pc,
                   pb_pc, pb_cur, turn, released, dropped>>

\* _generate_worker: request the audio, put (index, path) or (index, None)
\* on the queue, remove the thread reference.
GenerateWorker(w, resp) ==
    /\ w \in workers
    /\ LET e == [index |-> w.index, file |-> RequestApi(resp), turn |-> w.turn] IN
         play_queue' = play_queue \cup {e}
    /\ workers' = workers \ {w}
    /\ generation_threads' = generation_threads \ {w}
    /\ UNCHANGED <<wsVars, extVars>>
    /\ UNCHANGED <<sentence_count, expected_index, pending_audio, main_pc,
                   pb_pc, pb_cur, turn, released, dropped>>

\* Log of one release at the cursor: the entry and where it was taken from.
Release(e, from) == Append(released, [index |-> e.index, file |-> e.file,
                                      turn |-> e.turn, via |-> from])

\* _playback_loop, step 1: the expected index is in pending_audio.
PlaybackFromPending ==
    /\ pb_pc = "loop"
    /\ \E e \in pending_audio :
         /\ e.index = expected_index
         /\ pending_audio' = pending_audio \ {e}
         /\ pb_cur' = e
         /\ released' = Release(e, "pending")
    /\ pb_pc' = "release"
    /\ UNCHANGED <<wsVars, extVars>>
    /\ UNCHANGED <<sentence_count, expected_index, play_queue,
                   generation_threads, workers, main_pc, turn, 
                   dropped>>

\* _playback_loop, step 2: take the least entry from the queue.
PlaybackFromQueue ==
    /\ pb_pc = "loop"
    /\ expected_index \notin PendingKeys(pending_audio)
    /\ \E e \in QueueMin(play_queue) :
         /\ play_queue' = play_queue \ {e}
         /\ LET c == Classify(e.index, expected_index) IN
              /\ pb_pc' = IF c = "play" THEN "release" ELSE "loop"
              /\ pb_cur' = IF c = "play" THEN e ELSE NoEntry
              /\ released' = IF c = "play" THEN Release(e, "queue") ELSE released
              /\ pending_audio' = IF c = "stash" THEN PendingPut(pending_audio, e)
                                  ELSE pending_audio
              /\ dropped' = IF c = "drop" THEN dropped \cup {e} ELSE dropped
    /\ UNCHANGED <<wsVars, extVars>>
    /\ UNCHANGED <<sentence_count, expected_index, generation_threads, workers,
                   main_pc, turn>>

\* _playback_loop: _play_file has returned (or the entry was None);
\* self.expected_index += 1.
PlaybackAdvance ==
    /\ pb_pc = "release"
    /\ expected_index' = expected_index + 1
    /\ pb_pc' = "loop"
    /\ pb_cur' = NoEntry
    /\ UNCHANGED <<wsVars, extVars>>
    /\ UNCHANGED <<sentence_count, play_queue, pending_audio,
                   generation_threads, workers, main_pc, turn, 
                   released, dropped>>

\* reset(), first step: _wait_generation_complete.  Each join has a timeout,
\* so workers that have not returned may still be running afterwards; the
\* list of thread references is cleared either way.
ResetWait ==
    /\ main_pc = "feed"
    /\ turn < MaxTurns
    /\ generation_threads' = {}
    /\ main_pc' = "reset_queue"
    /\ UNCHANGED <<wsVars, extVars>>
    /\ UNCHANGED <<sentence_count, expected_index, play_queue, pending_audio,
                   workers, pb_pc, pb_cur, turn, released, dropped>>

\* reset(): drain play_queue.
ResetQueue ==
    /\ main_pc = "reset_queue"
    /\ play_queue' = {}
    /\ main_pc' = "reset_pending"
    /\ UNCHANGED <<wsVars, extVars>>
    /\ UNCHANGED <<sentence_count, expected_index, pending_audio,
                   generation_threads, workers, pb_pc, pb_cur, turn, 
                   released, dropped>>

\* reset(): clear pending_audio.
ResetPending ==
    /\ main_pc = "reset_pending"
    /\ pending_audio' = {}
    /\ main_pc' = "reset_counters"
    /\ UNCHANGED <<wsVars, extVars>>
    /\ UNCHANGED <<sentence_count, expected_index, play_queue,
                   generation_threads, workers, pb_pc, pb_cur, turn, 
                   released, dropped>>

\* reset(): reset the counters; the new turn begins when reset() returns.
ResetCounters ==
    /\ main_pc = "reset_counters"
    /\ sentence_count' = 0
    /\ expected_index' = 1
    /\ turn' = turn + 1
    /\ main_pc' = "feed"
    /\ UNCHANGED <<wsVars, extVars>>
    /\ UNCHANGED <<play_queue, pending_audio, generation_threads, workers,
                   pb_pc, pb_cur, released, dropped>>

WorkerStep == \E w \in workers : \E resp \in Responses : GenerateWorker(w, resp)
PlaybackStep == PlaybackFromPending \/ PlaybackFromQueue \/ PlaybackAdvance

\* One turn of the manager, from construction up to the first reset().
NextTurn ==
    \/ TriggerGeneration
    \/ WorkerStep
    \/ PlaybackFromPending
    \/ PlaybackFromQueue
    \/ PlaybackAdvance

\* The manager over several turns.
NextTTS ==
    \/ TriggerGeneration
    \/ WorkerStep
    \/ PlaybackFromPending
    \/ PlaybackFromQueue
    \/ PlaybackAdvance
    \/ ResetWait
    \/ ResetQueue
    \/ ResetPending
    \/ ResetCounters


(***************************************************************************)
(* Part B.  websocket_chat (api/routes/chat.py)                            *)
(***************************************************************************)
\* WebSocket connections, and the session ids a client may name.
Conns == {1, 2}
Sessions == {"s1", "s2"}

\* A server-to-client message.  seg is the sentence an 'audio' message
\* carries, stopped the flag of a 'done' message.
Msg(type, rid, seg, stopped) ==
    [type |-> type, rid |-> rid, seg |-> seg, stopped |-> stopped]

\* Sentinel that closes the audio queue (None in the source).
Sentinel == 0

\* The locals of websocket_chat right after accept(), with no task yet.
InitConn ==
    [ running_task       |-> "none",    \* None / task not done / task done
      running_stop_event |-> "none",    \* None / Event clear / Event set
      running_request_id |-> 0,         \* 0 is None
      pc                 |-> "idle",    \* position of _process_one_message
      session_id         |-> "none",
      audio_enabled      |-> FALSE,
      empty              |-> FALSE,     \* payload has neither text nor attachments
      audio_queue        |-> <<>>,
      audio_chunks       |-> <<>>,
      sentence_buffer    |-> FALSE,     \* buffer holds speakable text
      enq_count          |-> 0,         \* sentences put on audio_queue
      tokens             |-> 0,         \* tokens received from the producer
      result_stopped     |-> FALSE,     \* result["stopped"] of run_stream
      worker_pc          |-> "done",    \* position of audio_worker
      sentence           |-> 0,         \* sentence audio_worker is synthesizing
      synth              |-> <<>>,      \* history: sentences whose synthesis started
      tail_after_stop    |-> 0,         \* history: tail enqueued with the stop set
      inflight_at_stop   |-> 0,         \* history: sentence in flight when stop was set
      closed             |-> FALSE,     \* the receive loop has ended
      out                |-> <<>> ]     \* history: messages sent on the connection
                                        \* since its last task was created

InitWS ==
    /\ ws = [c \in Conns |-> InitConn]
    /\ msg_count = 0
    /\ stop_count = 0

Running(c) == ws[c].running_task = "running"
StopSet(c) == ws[c].running_stop_event = "set"

\* Lines 740-749: a finished task is forgotten before any request other
\* than ping is looked at.
Recycle(conn) ==
    IF conn.running_task = "done"
    THEN [conn EXCEPT !.running_task = "none", !.running_stop_event = "none",
                      !.running_request_id = 0]
    ELSE conn

\* Receive loop, type 'stop'.
ReceiveStop(c) ==
    /\ stop_count < MaxStops
    /\ stop_count' = stop_count + 1
    /\ LET r == Recycle(ws[c]) IN
         IF r.running_stop_event # "none" /\ r.running_task = "running"
         THEN ws' = [ws EXCEPT ![c] =
                  [r EXCEPT !.running_stop_event = "set",
                            !.inflight_at_stop =
                                IF r.running_stop_event = "clear" /\ r.worker_pc = "synth"
                                THEN r.sentence ELSE @,
                            !.out = Append(@, Msg("stopping", r.running_request_id, 0, FALSE))]]
         ELSE ws' = [ws EXCEPT ![c] = r]
    /\ UNCHANGED <<msg_count>>
    /\ UNCHANGED <<ttsVars, extVars>>

\* A receive loop that starts a task for every 'message' it receives.
ReceiveMessageNoGuard(c, sid, audio, empty) ==
    /\ msg_count < MaxMessages
    /\ msg_count' = msg_count + 1
    /\ LET r == Recycle(ws[c]) IN
         ws' = [ws EXCEPT ![c] =
                  [r EXCEPT !.running_request_id = msg_count + 1,
                            !.running_stop_event = "clear",
                            !.running_task = "running",
                            !.out = <<>>,
                            !.pc = "start",
                            !.session_id = sid,
                            !.audio_enabled = audio,
                            !.empty = empty]]
    /\ UNCHANGED <<stop_count>>
    /\ UNCHANGED <<ttsVars, extVars>>

\* A receive loop that creates the stop event once and hands the same event
\* to every task of the connection.
ReceiveMessageKeepsEvent(c, sid, audio, empty) ==
    /\ msg_count < MaxMessages
    /\ msg_count' = msg_count + 1
    /\ LET r == Recycle(ws[c]) IN
         IF r.running_task = "running"
         THEN ws' = [ws EXCEPT ![c] =
                  [r EXCEPT !.out = Append(@, Msg("error", msg_count + 1, 0, FALSE))]]
         ELSE ws' = [ws EXCEPT ![c] =
                  [r EXCEPT !.running_request_id = msg_count + 1,
                            !.running_stop_event =
                                IF ws[c].running_stop_event = "none" THEN "clear"
                                ELSE ws[c].running_stop_event,
                            !.running_task = "running",
                            !.out = <<>>,
                            !.pc = "start",
                            !.session_id = sid,
                            !.audio_enabled = audio,
                            !.empty = empty]]
    /\ UNCHANGED <<stop_count>>
    /\ UNCHANGED <<ttsVars, extVars>>

\* Receive loop, type 'message' with request id msg_count + 1: rejected while
\* the task of the connection is running, otherwise a new task is created.
ReceiveMessage(c, sid, audio, empty) ==
    /\ msg_count < MaxMessages
    /\ msg_count' = msg_count + 1
    /\ LET r == Recycle(ws[c]) IN
         IF r.running_task = "running"
         THEN ws' = [ws EXCEPT ![c] =
                  [r EXCEPT !.out = Append(@, Msg("error", msg_count + 1, 0, FALSE))]]
         ELSE ws' = [ws EXCEPT ![c] =
                  [r EXCEPT !.running_request_id = msg_count + 1,
                            !.running_stop_event = "clear",
                            !.running_task = "running",
                            !.out = <<>>,
                            !.pc = "start",
                            !.session_id = sid,
                            !.audio_enabled = audio,
                            !.empty = empty]]
    /\ UNCHANGED <<stop_count>>
    /\ UNCHANGED <<ttsVars, extVars>>

\* Receive loop, any other type than ping, stop and message.
ReceiveOther(c) ==
    /\ ws[c].running_task = "done"
    /\ ws' = [ws EXCEPT ![c] = Recycle(ws[c])]
    /\ UNCHANGED <<msg_count, stop_count>>
    /\ UNCHANGED <<ttsVars, extVars>>

\* The task has returned: running_task.done() is true from now on.  Its
\* locals live on only while audio_worker, which shares them, is running.
Finished(conn) ==
    IF conn.worker_pc = "done"
    THEN [InitConn EXCEPT !.running_task = "done",
                          !.running_stop_event = conn.running_stop_event,
                          !.running_request_id = conn.running_request_id,
                          !.out = conn.out]
    ELSE [conn EXCEPT !.pc = "idle", !.running_task = "done"]

\* _process_one_message up to the call of run_stream: an empty request is
\* answered with 'error'; otherwise 'session' is sent, the queue, the chunk
\* list and the buffers are created and audio_worker is started.
StartTask(c) ==
    /\ ws[c].pc = "start"
    /\ LET rid == ws[c].running_request_id IN
         IF ws[c].empty
         THEN ws' = [ws EXCEPT ![c] =
                  Finished([@ EXCEPT !.out = Append(@, Msg("error", rid, 0, FALSE))])]
         ELSE ws' = [ws EXCEPT ![c] =
                  [@ EXCEPT !.out = Append(@, Msg("session", rid, 0, FALSE)),
                            !.pc = "stream",
                            !.audio_queue = <<>>,
                            !.audio_chunks = <<>>,
                            !.sentence_buffer = FALSE,
                            !.enq_count = 0,
                            !.tokens = 0,
                            !.result_stopped = FALSE,
                            !.worker_pc = IF ws[c].audio_enabled THEN "wait" ELSE "done",
                            !.sentence = 0,
                            !.synth = <<>>,
                            !.tail_after_stop = 0,
                            !.inflight_at_stop = 0]]
    /\ UNCHANGED <<msg_count, stop_count>>
    /\ UNCHANGED <<ttsVars, extVars>>

\* _chat_stream receives one token.  With should_stop() true it breaks with
\* stopped = True.  Otherwise on_token sends the token and, with audio on,
\* cuts n complete speakable sentences from the buffer and enqueues them;
\* more tells whether speakable text remains after the last terminator.
Token(c, n, more) ==
    /\ ws[c].pc = "stream"
    /\ StopSet(c) \/ ws[c].tokens < MaxTokens
    /\ IF StopSet(c)
       THEN ws' = [ws EXCEPT ![c].result_stopped = TRUE, ![c].pc = "returning"]
       ELSE IF ws[c].audio_enabled
       THEN ws' = [ws EXCEPT
                ![c].tokens = @ + 1,
                ![c].audio_queue = IF n = 1 THEN Append(@, ws[c].enq_count + 1) ELSE @,
                ![c].enq_count = @ + n,
                ![c].sentence_buffer = IF n = 0 THEN @ \/ more ELSE more]
       ELSE ws' = [ws EXCEPT ![c].tokens = @ + 1]
    /\ UNCHANGED <<msg_count, stop_count>>
    /\ UNCHANGED <<ttsVars, extVars>>

\* The token stream ends without a stop having been observed.
StreamEnd(c) ==
    /\ ws[c].pc = "stream"
    /\ ws' = [ws EXCEPT ![c].result_stopped = FALSE, ![c].pc = "returning"]
    /\ UNCHANGED <<msg_count, stop_count>>
    /\ UNCHANGED <<ttsVars, extVars>>

\* Lines 717-723: an exception cancels audio_worker and sends 'error'.
Fail(conn) ==
    Finished([conn EXCEPT
        !.worker_pc = "done",
        !.out = Append(@, Msg("error", conn.running_request_id, 0, FALSE))])

\* run_stream raises.
ProducerError(c) ==
    /\ ws[c].pc \in {"stream", "returning"}
    /\ ws' = [ws EXCEPT ![c] = Fail(@)]
    /\ UNCHANGED <<msg_count, stop_count>>
    /\ UNCHANGED <<ttsVars, extVars>>

\* Lines 706-715: send 'done' with result["stopped"].
Done(conn) ==
    Finished([conn EXCEPT
        !.out = Append(@, Msg("done", conn.running_request_id, 0, conn.result_stopped))])

\* A turn end that forgets the sentinel that closes the audio queue.
FlushTailNoSentinel(c) ==
    /\ ws[c].pc = "returning"
    /\ IF ws[c].audio_enabled
       THEN ws' = [ws EXCEPT ![c].pc = "await_worker"]
       ELSE ws' = [ws EXCEPT ![c] = Done(@)]
    /\ UNCHANGED <<msg_count, stop_count>>
    /\ UNCHANGED <<ttsVars, extVars>>

\* run_stream returns.  With audio on the rest of the sentence buffer is
\* enqueued if it is speakable, then the sentinel; with audio off 'done' is
\* sent.  (An unclosed fence left in fenced_buffer adds no visible text.)
FlushTail(c) ==
    /\ ws[c].pc = "returning"
    /\ IF ws[c].audio_enabled
       THEN LET hasTail == ws[c].sentence_buffer
                q == IF hasTail THEN Append(ws[c].audio_queue, ws[c].enq_count + 1)
                     ELSE ws[c].audio_queue
            IN ws' = [ws EXCEPT
                 ![c].audio_queue = Append(q, Sentinel),
                 ![c].enq_count = IF hasTail THEN @ + 1 ELSE @,
                 ![c].tail_after_stop = IF hasTail /\ StopSet(c)
                                        THEN ws[c].enq_count + 1 ELSE @,
                 ![c].pc = "await_worker"]
       ELSE ws' = [ws EXCEPT ![c] = Done(@)]
    /\ UNCHANGED <<msg_count, stop_count>>
    /\ UNCHANGED <<ttsVars, extVars>>

\* audio_worker that ignores the stop event.
WorkerGetIgnoresStop(c) ==
    /\ ws[c].worker_pc = "wait"
    /\ ws[c].audio_queue # <<>>
    /\ LET s == Head(ws[c].audio_queue) IN
         IF s = Sentinel
         THEN ws' = [ws EXCEPT ![c].audio_queue = Tail(@), ![c].worker_pc = "done"]
         ELSE ws' = [ws EXCEPT ![c].audio_queue = Tail(@), ![c].worker_pc = "synth",
                               ![c].sentence = s, ![c].synth = Append(@, s)]
    /\ UNCHANGED <<msg_count, stop_count>>
    /\ UNCHANGED <<ttsVars, extVars>>

\* audio_worker takes the next sentence: it exits on the sentinel or when
\* the stop event is set, otherwise it starts the synthesis call.
WorkerGet(c) ==
    /\ ws[c].worker_pc = "wait"
    /\ ws[c].audio_queue # <<>>
    /\ LET s == Head(ws[c].audio_queue) IN
         IF s = Sentinel \/ StopSet(c)
         THEN ws' = [ws EXCEPT ![c].audio_queue = Tail(@), ![c].worker_pc = "done"]
         ELSE ws' = [ws EXCEPT ![c].audio_queue = Tail(@), ![c].worker_pc = "synth",
                               ![c].sentence = s, ![c].synth = Append(@, s)]
    /\ UNCHANGED <<msg_count, stop_count>>
    /\ UNCHANGED <<ttsVars, extVars>>

\* The synthesis call returns a file, returns None or raises.  A file is
\* appended to audio_chunks and announced with 'audio'.
SynthOutcomes == {"file", "none", "raise"}

\* audio_worker whose loop ends when a synthesis call fails.
WorkerSynthDoneStopsOnFailure(c, res) ==
    /\ ws[c].worker_pc = "synth"
    /\ IF res = "file"
       THEN ws' = [ws EXCEPT
                ![c].audio_chunks = Append(@, ws[c].sentence),
                ![c].out = Append(@, Msg("audio", ws[c].running_request_id,
                                         ws[c].sentence, FALSE)),
                ![c].worker_pc = "wait",
                ![c].sentence = 0]
       ELSE ws' = [ws EXCEPT ![c].worker_pc = "done", ![c].sentence = 0]
    /\ UNCHANGED <<msg_count, stop_count>>
    /\ UNCHANGED <<ttsVars, extVars>>

WorkerSynthDone(c, res) ==
    /\ ws[c].worker_pc = "synth"
    /\ IF res = "file"
       THEN ws' = [ws EXCEPT
                ![c].audio_chunks = Append(@, ws[c].sentence),
                ![c].out = Append(@, Msg("audio", ws[c].running_request_id,
                                         ws[c].sentence, FALSE)),
                ![c].worker_pc = "wait",
                ![c].sentence = 0]
       ELSE ws' = [ws EXCEPT ![c].worker_pc = "wait", ![c].sentence = 0]
    /\ UNCHANGED <<msg_count, stop_count>>
    /\ UNCHANGED <<ttsVars, extVars>>

\* A turn end that does not wait for audio_worker.
AwaitWorkerNoWait(c) ==
    /\ ws[c].pc = "await_worker"
    /\ IF ws[c].audio_chunks # <<>>
       THEN ws' = [ws EXCEPT ![c].pc = "merge"]
       ELSE ws' = [ws EXCEPT ![c] = Done(@)]
    /\ UNCHANGED <<msg_count, stop_count>>
    /\ UNCHANGED <<ttsVars, extVars>>

\* await worker_task has returned: merge when there are chunks, otherwise
\* send 'done'.
AwaitWorker(c) ==
    /\ ws[c].pc = "await_worker"
    /\ ws[c].worker_pc = "done"
    /\ IF ws[c].audio_chunks # <<>>
       THEN ws' = [ws EXCEPT ![c].pc = "merge"]
       ELSE ws' = [ws EXCEPT ![c] = Done(@)]
    /\ UNCHANGED <<msg_count, stop_count>>
    /\ UNCHANGED <<ttsVars, extVars>>

\* merge_audio_chunks returns (a path or None) or raises.
MergeOutcomes == {"file", "none", "raise"}
MergeDone(c, res) ==
    /\ ws[c].pc = "merge"
    /\ IF res = "raise"
       THEN ws' = [ws EXCEPT ![c] = Fail(@)]
       ELSE ws' = [ws EXCEPT ![c] = Done(@)]
    /\ UNCHANGED <<msg_count, stop_count>>
    /\ UNCHANGED <<ttsVars, extVars>>

\* Lines 791-812: receive_json raises (the client has disconnected, or any
\* other exception) and the handler returns.  With a task running the stop
\* event is set and the task cancelled: it ends with CancelledError at the
\* await it is suspended in, which `except Exception` of lines 717-723 does
\* not catch, so audio_worker is cancelled only when the task is suspended
\* in `await worker_task` and the cancellation is passed on to it.
Disconnect(c) ==
    /\ ~ws[c].closed
    /\ IF Running(c)
       THEN ws' = [ws EXCEPT ![c] =
                [@ EXCEPT !.closed = TRUE,
                          !.running_stop_event = "set",
                          !.running_task = "done",
                          !.pc = "idle",
                          !.worker_pc = IF ws[c].pc = "await_worker" THEN "done" ELSE @]]
       ELSE ws' = [ws EXCEPT ![c].closed = TRUE]
    /\ UNCHANGED <<msg_count, stop_count>>
    /\ UNCHANGED <<ttsVars, extVars>>

\* The synthesis call of audio_worker returns after the connection has
\* ended: a file is appended to audio_chunks, send_json raises and the
\* exception is logged; the loop goes on.
WorkerSynthDoneClosed(c, res) ==
    /\ ws[c].worker_pc = "synth"
    /\ ws[c].closed
    /\ ws' = [ws EXCEPT
             ![c].audio_chunks = IF res = "file" THEN Append(@, ws[c].sentence) ELSE @,
             ![c].worker_pc = "wait",
             ![c].sentence = 0]
    /\ UNCHANGED <<msg_count, stop_count>>
    /\ UNCHANGED <<ttsVars, extVars>>

\* The receive loop takes the next request; the client names a session of
\* the set sessions.
ReceiveFrom(c, sessions) ==
    \/ ReceiveStop(c)
    \/ \E sid \in sessions : \E audio, empty \in BOOLEAN :
           ReceiveMessage(c, sid, audio, empty)
    \/ ReceiveOther(c)
ReceiveStep(c) == ReceiveFrom(c, Sessions)
ProducerStep(c) ==
    \/ \E n \in 0..1 : \E more \in BOOLEAN : Token(c, n, more)
    \/ StreamEnd(c)
    \/ ProducerError(c)
WorkerTaskStep(c) ==
    \/ WorkerGet(c)
    \/ \E res \in SynthOutcomes : WorkerSynthDone(c, res)
TaskStep(c) ==
    \/ StartTask(c)
    \/ FlushTail(c)
    \/ AwaitWorker(c)
    \/ \E res \in MergeOutcomes : MergeDone(c, res)

\* One connection, whose client stays in one session (the session id is
\* only handed on to run_stream).
NextWS ==
    \/ ReceiveFrom(1, {"s1"})
    \/ ProducerStep(1)
    \/ WorkerTaskStep(1)
    \/ TaskStep(1)

\* audio_worker, while the connection is open and after it has ended.
WorkerTaskStepOrClosed(c) ==
    \/ WorkerGet(c)
    \/ ~ws[c].closed /\ \E res \in SynthOutcomes : WorkerSynthDone(c, res)
    \/ \E res \in SynthOutcomes : WorkerSynthDoneClosed(c, res)

\* One connection up to and after its end.
NextWSClose ==
    \/ ~ws[1].closed /\ ReceiveFrom(1, {"s1"})
    \/ Disconnect(1)
    \/ ProducerStep(1)
    \/ WorkerTaskStepOrClosed(1)
    \/ TaskStep(1)

\* Two connections served by the same process.  Session ids are names only:
\* the client of connection 1 stays in s1, the client of connection 2 names
\* the same session or another one.
NextWS2 ==
    \E c \in Conns :
        \/ ReceiveFrom(c, IF c = 1 THEN {"s1"} ELSE Sessions)
        \/ ProducerStep(c)
        \/ WorkerTaskStep(c)
        \/ TaskStep(c)


(***************************************************************************)
(* Part C.  ChatService.websocket_chat (api/services/chat_service.py)      *)
(* The receive loop, on_token, audio_worker and the exception handler are  *)
(* the code of Part B; the start and the end of the turn differ.           *)
(***************************************************************************)
\* _process_one_message up to the call of run_stream: as in Part B, but no
\* 'session' message is sent.
SvcStartTask(c) ==
    /\ ws[c].pc = "start"
    /\ LET rid == ws[c].running_request_id IN
         IF ws[c].empty
         THEN ws' = [ws EXCEPT ![c] =
                  Finished([@ EXCEPT !.out = Append(@, Msg("error", rid, 0, FALSE))])]
         ELSE ws' = [ws EXCEPT ![c] =
                  [@ EXCEPT !.pc = "stream",
                            !.audio_queue = <<>>,
                            !.audio_chunks = <<>>,
                            !.sentence_buffer = FALSE,
                            !.enq_count = 0,
                            !.tokens = 0,
                            !.result_stopped = FALSE,
                            !.worker_pc = IF ws[c].audio_enabled THEN "wait" ELSE "done",
                            !.sentence = 0,
                            !.synth = <<>>,
                            !.tail_after_stop = 0,
                            !.inflight_at_stop = 0]]
    /\ UNCHANGED <<msg_count, stop_count>>
    /\ UNCHANGED <<ttsVars, extVars>>

\* run_stream returns.  With audio on the tail is enqueued, then the
\* sentinel; with audio off the task returns without sending anything.
SvcFlushTail(c) ==
    /\ ws[c].pc = "returning"
    /\ IF ws[c].audio_enabled
       THEN LET hasTail == ws[c].sentence_buffer
                q == IF hasTail THEN Append(ws[c].audio_queue, ws[c].enq_count + 1)
                     ELSE ws[c].audio_queue
            IN ws' = [ws EXCEPT
                 ![c].audio_queue = Append(q, Sentinel),
                 ![c].enq_count = IF hasTail THEN @ + 1 ELSE @,
                 ![c].tail_after_stop = IF hasTail /\ StopSet(c)
                                        THEN ws[c].enq_count + 1 ELSE @,
                 ![c].pc = "await_worker"]
       ELSE ws' = [ws EXCEPT ![c] = Finished(@)]
    /\ UNCHANGED <<msg_count, stop_count>>
    /\ UNCHANGED <<ttsVars, extVars>>

\* await worker_task has returned: merge when there are chunks; otherwise
\* the task returns without sending anything.
SvcAwaitWorker(c) ==
    /\ ws[c].pc = "await_worker"
    /\ ws[c].worker_pc = "done"
    /\ IF ws[c].audio_chunks # <<>>
       THEN ws' = [ws EXCEPT ![c].pc = "merge"]
       ELSE ws' = [ws EXCEPT ![c] = Finished(@)]
    /\ UNCHANGED <<msg_count, stop_count>>
    /\ UNCHANGED <<ttsVars, extVars>>

SvcTaskStep(c) ==
    \/ SvcStartTask(c)
    \/ SvcFlushTail(c)
    \/ SvcAwaitWorker(c)
    \/ \E res \in MergeOutcomes : MergeDone(c, res)

NextSvc ==
    \/ ReceiveStep(1)
    \/ ProducerStep(1)
    \/ WorkerTaskStep(1)
    \/ SvcTaskStep(1)

(***************************************************************************)
(* Part D.  APITTSService files (api/services/tts_service.py) and the      *)
(* cache clearing endpoint (api/routes/audio.py, config/paths.py)          *)
(* Requests are turns served at the same time on different connections;    *)
(* each runs the sequential audio_worker of Part B against the one cache   *)
(* directory.  A file is named speech_<time in ms>.mp3, so its name is     *)
(* the tick at which it is written, which is also its mtime.               *)
(***************************************************************************)
Requests == {1, 2}

InitJob ==
    [ pc           |-> "worker",   \* worker / generate / written / done
      t0           |-> 0,          \* tick at which the call in flight started
      calls        |-> 0,          \* synthesis calls started
      resp         |-> "none",     \* response the call in flight received
      output_path  |-> 0,          \* file the call in flight has written
      returned     |-> {},         \* history: response and result of each call
      audio_chunks |-> <<>>,       \* names of the files generate returned
      delivered    |-> <<>>,       \* history: content announced by each 'audio'
      merge_ran    |-> FALSE,      \* merge_audio_files was called
      merge_at     |-> 0,          \* tick at which it returned
      merged_ok    |-> FALSE,      \* it returned a path
      merged       |-> <<>> ]      \* content of the merged file

InitStore ==
    /\ now = 1
    /\ cache_dir = {}
    /\ job = [r \in Requests |-> InitJob]
    /\ timers = {}
    /\ deleted = {}

Range(q) == {q[i] : i \in DOMAIN q}
Names(dir) == {f.name : f \in dir}
\* Path.exists / read_bytes / write_bytes / unlink(missing_ok=True)
Exists(n) == n \in Names(cache_dir)
ReadBytes(n) == (CHOOSE f \in cache_dir : f.name = n).data
WriteBytes(dir, n, d) == {f \in dir : f.name # n} \cup {[name |-> n, data |-> d]}
Unlink(dir, names) == {f \in dir : f.name \notin names}

\* History of deletions: one entry per request that holds the deleted file
\* in its audio_chunks; early tells whether the grace period of that
\* request's merge had not yet passed.
EarlyFor(r) == ~job[r].merge_ran \/ now < job[r].merge_at + GraceTicks
LogDeletion(names, by) ==
    deleted \cup
        {[req |-> p[1], name |-> p[2], by |-> by, early |-> EarlyFor(p[1])] :
            p \in {q \in Requests \X (names \cap Names(cache_dir)) :
                      q[2] \in Range(job[q[1]].audio_chunks)}}

\* audio_worker takes a sentence and calls generate in the executor.
GenerateStart(r) ==
    /\ job[r].pc = "worker"
    /\ job[r].calls < MaxChunks
    /\ job' = [job EXCEPT ![r].pc = "generate", ![r].t0 = now, ![r].calls = @ + 1]
    /\ UNCHANGED <<now, cache_dir, timers, deleted>>
    /\ UNCHANGED <<ttsVars, wsVars, voiceVars, mgrVars, segVars, txtVars, agentVars>>

\* The outcomes of the HTTP request of generate: a 200 response with audio
\* of at least 10 bytes, a 200 response of fewer than 10 bytes, a status
\* other than 200, a 200 response whose content type is JSON, an exception.
GenerateResponses == {"audio", "undersized", "http_error", "json", "exception"}
\* Content of the file a call writes: the call it comes from, and whether
\* it is shorter than 10 bytes.
Content(r, resp) == [req |-> r, call |-> job[r].calls, small |-> resp = "undersized"]
\* Log of one return of generate; path = 0 is None.
Returned(r, resp, path) ==
    job[r].returned \cup {[call |-> job[r].calls, resp |-> resp, path |-> path]}

\* generate, up to write_bytes: the request returns at least one tick after
\* the call (it is an HTTP request).  Any response but a 200 with a content
\* type other than JSON makes generate return None; otherwise the content
\* is written to speech_<now>.mp3.
GenerateWrite(r, resp) ==
    /\ job[r].pc = "generate"
    /\ now > job[r].t0
    /\ IF resp \in {"audio", "undersized"}
       THEN /\ cache_dir' = WriteBytes(cache_dir, now, Content(r, resp))
            /\ job' = [job EXCEPT ![r].pc = "written", ![r].resp = resp,
                                  ![r].output_path = now]
       ELSE /\ job' = [job EXCEPT ![r].pc = "worker",
                                  ![r].returned = Returned(r, resp, 0)]
            /\ UNCHANGED cache_dir
    /\ UNCHANGED <<now, timers, deleted>>
    /\ UNCHANGED <<ttsVars, wsVars, voiceVars, mgrVars, segVars, txtVars, agentVars>>

\* generate, from stat on: a missing file makes stat raise and generate
\* return None; a file of fewer than 10 bytes is unlinked and None returned;
\* otherwise the path is returned, audio_worker appends it to audio_chunks
\* and sends 'audio'.
GenerateCheck(r) ==
    /\ job[r].pc = "written"
    /\ LET path == job[r].output_path
           resp == job[r].resp
       IN IF ~Exists(path)
          THEN /\ job' = [job EXCEPT ![r].pc = "worker",
                                     ![r].returned = Returned(r, resp, 0)]
               /\ UNCHANGED <<cache_dir, deleted>>
          ELSE IF ReadBytes(path).small
          THEN /\ cache_dir' = Unlink(cache_dir, {path})
               /\ deleted' = LogDeletion({path}, "generate")
               /\ job' = [job EXCEPT ![r].pc = "worker",
                                     ![r].returned = Returned(r, resp, 0)]
          ELSE /\ job' = [job EXCEPT
                     ![r].pc = "worker",
                     ![r].audio_chunks = Append(@, path),
                     ![r].delivered = Append(@, Content(r, resp)),
                     ![r].returned = Returned(r, resp, path)]
               /\ UNCHANGED <<cache_dir, deleted>>
    /\ UNCHANGED <<now, timers>>
    /\ UNCHANGED <<ttsVars, wsVars, voiceVars, mgrVars, segVars, txtVars, agentVars>>

\* The turn ends: audio_worker has exited and, when audio_chunks is not
\* empty, merge_audio_files runs.  Paths that no longer exist are left out;
\* with no path left it returns None.  Otherwise the files are written to
\* the merged file in list order and their deletion is scheduled ("ok"), or
\* an I/O call raises and None is returned ("exception").
MergeResults == {"ok", "exception"}
MergeAudioFiles(r, res) ==
    /\ job[r].pc = "worker"
    /\ LET valid_files == SelectSeq(job[r].audio_chunks, Exists) IN
         IF job[r].audio_chunks = <<>>
         THEN /\ job' = [job EXCEPT ![r].pc = "done"]
              /\ UNCHANGED timers
         ELSE IF valid_files = <<>> \/ res = "exception"
         THEN /\ job' = [job EXCEPT ![r].pc = "done", ![r].merge_ran = TRUE,
                                    ![r].merge_at = now]
              /\ UNCHANGED timers
         ELSE /\ job' = [job EXCEPT
                    ![r].pc = "done", ![r].merge_ran = TRUE, ![r].merge_at = now,
                    ![r].merged_ok = TRUE,
                    ![r].merged = [i \in DOMAIN valid_files |-> ReadBytes(valid_files[i])]]
              /\ timers' = timers \cup
                    {[req |-> r, files |-> Range(valid_files), due |-> now + GraceTicks]}
    /\ UNCHANGED <<now, cache_dir, deleted>>
    /\ UNCHANGED <<ttsVars, wsVars, voiceVars, mgrVars, segVars, txtVars, agentVars>>

\* _delete_files_later._worker: the sleep is over, every file of the list
\* is unlinked.
DeleteWorker(tm) ==
    /\ tm \in timers
    /\ now >= tm.due
    /\ cache_dir' = Unlink(cache_dir, tm.files)
    /\ deleted' = LogDeletion(tm.files, "timer")
    /\ timers' = timers \ {tm}
    /\ UNCHANGED <<now, job>>
    /\ UNCHANGED <<ttsVars, wsVars, voiceVars, mgrVars, segVars, txtVars, agentVars>>

\* DELETE /audio/cache: cleanup_audio_cache(max_age_hours=0) unlinks every
\* file whose age (now - mtime) is greater than 0.
ExpiredFiles == {n \in Names(cache_dir) : now - n > 0}
ClearAudioCache ==
    /\ ExpiredFiles # {}
    /\ cache_dir' = Unlink(cache_dir, ExpiredFiles)
    /\ deleted' = LogDeletion(ExpiredFiles, "clear")
    /\ UNCHANGED <<now, job, timers>>
    /\ UNCHANGED <<ttsVars, wsVars, voiceVars, mgrVars, segVars, txtVars, agentVars>>

\* Time passes.
Tick ==
    /\ now < MaxTime
    /\ now' = now + 1
    /\ UNCHANGED <<cache_dir, job, timers, deleted>>
    /\ UNCHANGED <<ttsVars, wsVars, voiceVars, mgrVars, segVars, txtVars, agentVars>>

NextStore ==
    \/ \E r \in Requests : GenerateStart(r)
    \/ \E r \in Requests : \E resp \in GenerateResponses : GenerateWrite(r, resp)
    \/ \E r \in Requests : GenerateCheck(r)
    \/ \E r \in Requests : \E res \in MergeResults : MergeAudioFiles(r, res)
    \/ \E tm \in timers : DeleteWorker(tm)
    \/ ClearAudioCache
    \/ Tick

(***************************************************************************)
(* Part E.  APITTSService voice upload (api/services/tts_service.py)       *)
(* Synthesis threads of the executor call generate, which calls            *)
(* _ensure_voice_uploaded; reload_agent calls reset_voice.  A URI is       *)
(* identified by the number of the upload that returned it and by the      *)
(* number of reset_voice calls completed when it was stored.               *)
(***************************************************************************)
Callers == {1, 2}
\* None
NoVoice == [id |-> 0, epoch |-> 0]
NoLock == 0

InitCaller ==
    [ pc    |-> "idle",      \* position in generate / _ensure_voice_uploaded
      voice |-> NoVoice,     \* value returned by _ensure_voice_uploaded
      since |-> 0 ]          \* history: reset_voice calls completed when
                             \* generate was called

InitVoice ==
    /\ voice_uri = NoVoice
    /\ voice_uploaded = FALSE
    /\ upload_lock = NoLock
    /\ caller = [t \in Callers |-> InitCaller]
    /\ upload_count = 0
    /\ reset_count = 0
    /\ epoch_uploads = 0

\* Threads inside _ensure_voice_uploaded that may still upload.
MayUpload == {t \in Callers : caller[t].pc \in {"check_uploaded", "check_uri",
                                                  "acquire", "locked", "uploading"}}

\* generate is called with valid text and an API key.
Generate(t) ==
    /\ caller[t].pc = "idle"
    /\ upload_count + Cardinality(MayUpload) < MaxUploads
    /\ caller' = [caller EXCEPT ![t].pc = "check_uploaded", ![t].voice = NoVoice,
                                ![t].since = reset_count]
    /\ UNCHANGED <<voice_uri, voice_uploaded, upload_lock, upload_count,
                   reset_count, epoch_uploads>>
    /\ UNCHANGED <<ttsVars, wsVars, storeVars, mgrVars, segVars, txtVars, agentVars>>

\* Line 179, outside the lock: self._voice_uploaded ...
CheckUploaded(t) ==
    /\ caller[t].pc = "check_uploaded"
    /\ caller' = [caller EXCEPT ![t].pc = IF voice_uploaded THEN "check_uri"
                                          ELSE "acquire"]
    /\ UNCHANGED <<voice_uri, voice_uploaded, upload_lock, upload_count,
                   reset_count, epoch_uploads>>
    /\ UNCHANGED <<ttsVars, wsVars, storeVars, mgrVars, segVars, txtVars, agentVars>>

\* ... and self._voice_uri
CheckUri(t) ==
    /\ caller[t].pc = "check_uri"
    /\ caller' = [caller EXCEPT ![t].pc = IF voice_uri # NoVoice THEN "return_cached"
                                          ELSE "acquire"]
    /\ UNCHANGED <<voice_uri, voice_uploaded, upload_lock, upload_count,
                   reset_count, epoch_uploads>>
    /\ UNCHANGED <<ttsVars, wsVars, storeVars, mgrVars, segVars, txtVars, agentVars>>

\* Line 180: return self._voice_uri (read once more).
ReturnCached(t) ==
    /\ caller[t].pc = "return_cached"
    /\ caller' = [caller EXCEPT ![t].pc = "request", ![t].voice = voice_uri]
    /\ UNCHANGED <<voice_uri, voice_uploaded, upload_lock, upload_count,
                   reset_count, epoch_uploads>>
    /\ UNCHANGED <<ttsVars, wsVars, storeVars, mgrVars, segVars, txtVars, agentVars>>

\* Line 182: with self._upload_lock
Acquire(t) ==
    /\ caller[t].pc = "acquire"
    /\ upload_lock = NoLock
    /\ upload_lock' = t
    /\ caller' = [caller EXCEPT ![t].pc = "locked"]
    /\ UNCHANGED <<voice_uri, voice_uploaded, upload_count, reset_count,
                   epoch_uploads>>
    /\ UNCHANGED <<ttsVars, wsVars, storeVars, mgrVars, segVars, txtVars, agentVars>>

\* A second check that is skipped: every thread that got the lock uploads.
LockedCheckAlwaysUploads(t) ==
    /\ caller[t].pc = "locked"
    /\ upload_count' = upload_count + 1
    /\ caller' = [caller EXCEPT ![t].pc = "uploading"]
    /\ UNCHANGED upload_lock
    /\ UNCHANGED <<voice_uri, voice_uploaded, reset_count, epoch_uploads>>
    /\ UNCHANGED <<ttsVars, wsVars, storeVars, mgrVars, segVars, txtVars, agentVars>>

\* Lines 184-188: the second check under the lock; the cached URI is
\* returned, or the upload request is sent.
LockedCheck(t) ==
    /\ caller[t].pc = "locked"
    /\ IF voice_uploaded /\ voice_uri # NoVoice
       THEN /\ caller' = [caller EXCEPT ![t].pc = "request", ![t].voice = voice_uri]
            /\ upload_lock' = NoLock
            /\ UNCHANGED upload_count
       ELSE /\ caller' = [caller EXCEPT ![t].pc = "uploading"]
            /\ upload_count' = upload_count + 1
            /\ UNCHANGED upload_lock
    /\ UNCHANGED <<voice_uri, voice_uploaded, reset_count, epoch_uploads>>
    /\ UNCHANGED <<ttsVars, wsVars, storeVars, mgrVars, segVars, txtVars, agentVars>>

\* Lines 188-191: _upload_reference_audio returns a URI or None; the result
\* is stored, _voice_uploaded is set either way, the lock is released.
UploadDone(t, ok) ==
    /\ caller[t].pc = "uploading"
    /\ LET uri == IF ok THEN [id |-> upload_count, epoch |-> reset_count]
                  ELSE NoVoice IN
         /\ voice_uri' = uri
         /\ caller' = [caller EXCEPT ![t].pc = "request", ![t].voice = uri]
    /\ voice_uploaded' = TRUE
    /\ upload_lock' = NoLock
    /\ epoch_uploads' = IF ok THEN epoch_uploads + 1 ELSE epoch_uploads
    /\ UNCHANGED <<upload_count, reset_count>>
    /\ UNCHANGED <<ttsVars, wsVars, storeVars, mgrVars, segVars, txtVars, agentVars>>

\* Lines 265-322: the speech request made with the voice (the default voice
\* when it is None) returns.
RequestDone(t) ==
    /\ caller[t].pc = "request"
    /\ caller' = [caller EXCEPT ![t].pc = "idle"]
    /\ UNCHANGED <<voice_uri, voice_uploaded, upload_lock, upload_count,
                   reset_count, epoch_uploads>>
    /\ UNCHANGED <<ttsVars, wsVars, storeVars, mgrVars, segVars, txtVars, agentVars>>

\* A reset_voice that leaves the cache as it is.
ResetVoiceKeepsCache ==
    /\ reset_count < MaxResets
    /\ upload_lock = NoLock
    /\ reset_count' = reset_count + 1
    /\ epoch_uploads' = 0
    /\ UNCHANGED <<voice_uri, voice_uploaded>>
    /\ UNCHANGED <<upload_lock, caller, upload_count>>
    /\ UNCHANGED <<ttsVars, wsVars, storeVars, mgrVars, segVars, txtVars, agentVars>>

\* reset_voice: under the lock, forget the URI and the uploaded flag.
ResetVoice ==
    /\ reset_count < MaxResets
    /\ upload_lock = NoLock
    /\ voice_uri' = NoVoice
    /\ voice_uploaded' = FALSE
    /\ reset_count' = reset_count + 1
    /\ epoch_uploads' = 0
    /\ UNCHANGED <<upload_lock, caller, upload_count>>
    /\ UNCHANGED <<ttsVars, wsVars, storeVars, mgrVars, segVars, txtVars, agentVars>>

CallerStep(t) ==
    \/ Generate(t)
    \/ CheckUploaded(t)
    \/ CheckUri(t)
    \/ ReturnCached(t)
    \/ Acquire(t)
    \/ LockedCheck(t)
    \/ \E ok \in BOOLEAN : UploadDone(t, ok)
    \/ RequestDone(t)

NextVoice ==
    \/ \E t \in Callers : CallerStep(t)
    \/ ResetVoice

(***************************************************************************)
(* Part F.  TTSManager voice upload (audio/tts_manager.py)                 *)
(* Every _generate_worker thread first calls _ensure_voice_uploaded, which *)
(* takes no lock, then _request_api, which reads self.default_voice.  The  *)
(* reference audio file exists.                                            *)
(***************************************************************************)
GenWorkers == {1, 2, 3}

InitGenWorker ==
    [ pc    |-> "new",       \* new / check / uploading / build / sent / done
      voice |-> NoVoice ]    \* the "voice" field of the request it sent

InitMgrVoice ==
    /\ default_voice = NoVoice
    /\ mgr_voice_uploaded = FALSE
    /\ gen_worker = [w \in GenWorkers |-> InitGenWorker]
    /\ mgr_uploads = 0

\* _trigger_generation starts the thread.
StartGenWorker(w) ==
    /\ gen_worker[w].pc = "new"
    /\ gen_worker' = [gen_worker EXCEPT ![w].pc = "check"]
    /\ UNCHANGED <<default_voice, mgr_voice_uploaded, mgr_uploads>>
    /\ UNCHANGED <<ttsVars, wsVars, storeVars, voiceVars, segVars, txtVars, agentVars>>

\* Lines 95-99: return if _voice_uploaded, otherwise send the upload.
EnsureVoiceCheck(w) ==
    /\ gen_worker[w].pc = "check"
    /\ IF mgr_voice_uploaded
       THEN /\ gen_worker' = [gen_worker EXCEPT ![w].pc = "build"]
            /\ UNCHANGED mgr_uploads
       ELSE /\ gen_worker' = [gen_worker EXCEPT ![w].pc = "uploading"]
            /\ mgr_uploads' = mgr_uploads + 1
    /\ UNCHANGED <<default_voice, mgr_voice_uploaded>>
    /\ UNCHANGED <<ttsVars, wsVars, storeVars, voiceVars, segVars, txtVars, agentVars>>

\* Lines 99-105: the upload returns a URI or None, which is stored in
\* default_voice; _voice_uploaded is set only for a URI.
EnsureVoiceUploadDone(w, ok) ==
    /\ gen_worker[w].pc = "uploading"
    /\ default_voice' = IF ok THEN [id |-> mgr_uploads, epoch |-> 0] ELSE NoVoice
    /\ mgr_voice_uploaded' = (mgr_voice_uploaded \/ ok)
    /\ gen_worker' = [gen_worker EXCEPT ![w].pc = "build"]
    /\ UNCHANGED mgr_uploads
    /\ UNCHANGED <<ttsVars, wsVars, storeVars, voiceVars, segVars, txtVars, agentVars>>

\* _request_api, lines 303-312: the request is built with
\* self.default_voice and sent.
BuildRequest(w) ==
    /\ gen_worker[w].pc = "build"
    /\ gen_worker' = [gen_worker EXCEPT ![w].pc = "sent", ![w].voice = default_voice]
    /\ UNCHANGED <<default_voice, mgr_voice_uploaded, mgr_uploads>>
    /\ UNCHANGED <<ttsVars, wsVars, storeVars, voiceVars, segVars, txtVars, agentVars>>

\* The request returns and the worker ends.
GenWorkerDone(w) ==
    /\ gen_worker[w].pc = "sent"
    /\ gen_worker' = [gen_worker EXCEPT ![w].pc = "done"]
    /\ UNCHANGED <<default_voice, mgr_voice_uploaded, mgr_uploads>>
    /\ UNCHANGED <<ttsVars, wsVars, storeVars, voiceVars, segVars, txtVars, agentVars>>

NextMgrVoice ==
    \E w \in GenWorkers :
        \/ StartGenWorker(w)
        \/ EnsureVoiceCheck(w)
        \/ \E ok \in BOOLEAN : EnsureVoiceUploadDone(w, ok)
        \/ BuildRequest(w)
        \/ GenWorkerDone(w)

(***************************************************************************)
(* Part G.  Fenced code removal and sentence cutting (api/routes/chat.py)  *)
(* The reply is a string over three kinds of character: "a" a speakable   *)
(* character, "." a sentence terminator, "b" a backtick.  The buffers and  *)
(* the sentences hold positions of the reply, so that every character of   *)
(* a sentence can be traced to its place in the reply.                     *)
(***************************************************************************)
Chars == {"a", ".", "b"}
\* len(FENCE_MARKER)
FenceLen == 3

InitSegBuffers ==
    /\ fed = 0
    /\ fenced_buffer = <<>>
    /\ sentence_buffer = <<>>
    /\ enqueued = <<>>
    /\ flushed = FALSE
    /\ raw_sentences = <<>>

InitSeg == reply = <<>> /\ InitSegBuffers
\* A turn whose producer streams any reply of MaxReply characters.
InitSegAny == reply \in [1..MaxReply -> Chars] /\ InitSegBuffers

Least(S) == CHOOSE k \in S : \A j \in S : k <= j
Drop(q, n) == SubSeq(q, n + 1, Len(q))

\* raw_text.find(FENCE_MARKER, from): the first place at or after from where
\* three backticks stand, 0 when there is none.
Find(raw, from) ==
    LET hits == {k \in from..(Len(raw) - FenceLen + 1) :
                    \A d \in 0..(FenceLen - 1) : reply[raw[k + d]] = "b"}
    IN IF hits = {} THEN 0 ELSE Least(hits)

\* _extract_non_code_text: the text outside closed fences, and the text from
\* an opening marker that is not closed yet.
RECURSIVE ExtractFrom(_, _, _)
ExtractFrom(raw, cursor, chunks) ==
    LET start == Find(raw, cursor) IN
      IF start = 0
      THEN [visible |-> chunks \o SubSeq(raw, cursor, Len(raw)), carry |-> <<>>]
      ELSE LET end == Find(raw, start + FenceLen) IN
             IF end = 0
             THEN [visible |-> chunks \o SubSeq(raw, cursor, start - 1),
                   carry |-> Drop(raw, start - 1)]
             ELSE ExtractFrom(raw, end + FenceLen,
                              chunks \o SubSeq(raw, cursor, start - 1))
ExtractNonCodeText(raw) ==
    IF raw = <<>> THEN [visible |-> <<>>, carry |-> <<>>]
    ELSE ExtractFrom(raw, 1, <<>>)

\* _normalize_tts_text on this alphabet: the inline-code substitution of
\* line 274 removes every span from a backtick to the next backtick, left
\* to right; the other substitutions match nothing.
RECURSIVE NormalizeTtsText(_)
NormalizeTtsText(text) ==
    LET ticks == {k \in DOMAIN text : reply[text[k]] = "b"} IN
      IF ticks = {} THEN text
      ELSE LET i == Least(ticks)
               later == {k \in ticks : k > i}
           IN IF later = {} THEN text
              ELSE SubSeq(text, 1, i - 1) \o NormalizeTtsText(Drop(text, Least(later)))

\* _has_speakable_content
HasSpeakableContent(text) == \E k \in DOMAIN text : reply[text[k]] = "a"

\* The while loop of on_token: cut every complete sentence off the buffer,
\* normalize it and enqueue it when it is speakable.
RECURSIVE CutSentences(_, _)
CutSentences(buffer, queue) ==
    LET ends == {k \in DOMAIN buffer : reply[buffer[k]] = "."} IN
      IF ends = {} THEN [buffer |-> buffer, queue |-> queue]
      ELSE LET end == Least(ends)
               sentence == NormalizeTtsText(SubSeq(buffer, 1, end))
           IN CutSentences(Drop(buffer, end),
                           IF HasSpeakableContent(sentence)
                           THEN Append(queue, sentence) ELSE queue)

\* The slices sentence_buffer[:end] the while loop of on_token takes, one per
\* match of SENTENCE_SPLIT_REGEX.
RECURSIVE RawSentences(_)
RawSentences(buffer) ==
    LET ends == {k \in DOMAIN buffer : reply[buffer[k]] = "."} IN
      IF ends = {} THEN <<>>
      ELSE <<SubSeq(buffer, 1, Least(ends))>>
               \o RawSentences(Drop(buffer, Least(ends)))

\* on_token with a token of k characters.
SegOnToken(k) ==
    /\ ~flushed
    /\ fed + k <= Len(reply)
    /\ LET token == [i \in 1..k |-> fed + i]
           x == ExtractNonCodeText(fenced_buffer \o token)
           cut == CutSentences(sentence_buffer \o x.visible, enqueued)
       IN /\ fenced_buffer' = x.carry
          /\ sentence_buffer' = cut.buffer
          /\ enqueued' = cut.queue
          /\ raw_sentences' =
                 raw_sentences \o RawSentences(sentence_buffer \o x.visible)
    /\ fed' = fed + k
    /\ UNCHANGED <<reply, flushed>>
    /\ UNCHANGED <<ttsVars, wsVars, storeVars, voiceVars, mgrVars, txtVars, agentVars>>

\* Lines 679-689, after run_stream has returned: the visible part of what is
\* left in fenced_buffer joins the sentence buffer, whose normalized content
\* is enqueued when it is speakable.
SegFlushTail ==
    /\ ~flushed
    /\ fed = Len(reply)
    /\ LET x == ExtractNonCodeText(fenced_buffer)
           buffer == sentence_buffer \o x.visible
           tail == NormalizeTtsText(buffer)
       IN /\ sentence_buffer' = buffer
          /\ enqueued' = IF HasSpeakableContent(tail) THEN Append(enqueued, tail)
                         ELSE enqueued
          /\ raw_sentences' = IF buffer # <<>> THEN Append(raw_sentences, buffer)
                              ELSE raw_sentences
    /\ flushed' = TRUE
    /\ UNCHANGED <<reply, fed, fenced_buffer>>
    /\ UNCHANGED <<ttsVars, wsVars, storeVars, voiceVars, mgrVars, txtVars, agentVars>>

NextSeg ==
    \/ \E k \in 1..MaxReply : SegOnToken(k)
    \/ SegFlushTail

(***************************************************************************)
(* Part H.  Text intake of the TTSManager (audio/tts_manager.py)           *)
(* The text is a string over five kinds of character: "a" a letter, digit  *)
(* or CJK character, "_" an underscore, "." a sentence terminator, "("     *)
(* and ")" the brackets of an action description.                          *)
(***************************************************************************)
StreamChars == {"a", "_", ".", "(", ")"}

InitStreamBuffers ==
    /\ stream_fed = 0
    /\ mgr_buffer = <<>>
    /\ triggered = <<>>
    /\ stream_flushed = FALSE

InitStream == stream = <<>> /\ InitStreamBuffers
\* A turn in which the caller feeds any text of MaxStream characters.
InitStreamAny == stream \in [1..MaxStream -> StreamChars] /\ InitStreamBuffers

\* _clean_text on this alphabet: ACTION_REMOVE_REGEX removes every span from
\* an opening bracket to the next closing bracket, left to right; there is
\* no ellipsis and no white space to remove.
RECURSIVE CleanText(_)
CleanText(text) ==
    LET opens == {k \in DOMAIN text : text[k] = "("} IN
      IF opens = {} THEN text
      ELSE LET i == Least(opens)
               closes == {k \in DOMAIN text : k > i /\ text[k] = ")"}
           IN IF closes = {} THEN text
              ELSE SubSeq(text, 1, i - 1) \o CleanText(Drop(text, Least(closes)))

\* _is_valid_text: something is left once every character that is neither a
\* word character (\w) nor CJK has been removed.  The underscore is a word
\* character.
IsValidText(text) == \E k \in DOMAIN text : text[k] \in {"a", "_"}

\* _process_and_trigger on each of the raw sentences, in order: a sentence
\* whose clean text is valid takes the next index and starts a worker.
RECURSIVE ProcessAndTrigger(_, _)
ProcessAndTrigger(raws, started) ==
    IF raws = <<>> THEN started
    ELSE LET clean_text == CleanText(Head(raws)) IN
           ProcessAndTrigger(Tail(raws),
                             IF IsValidText(clean_text)
                             THEN Append(started, clean_text) ELSE started)

\* The slices buffer[:end_pos] the while loop of add_text_stream takes, and
\* what stays in the buffer.
RECURSIVE SplitBuffer(_, _)
SplitBuffer(text, raws) ==
    LET ends == {k \in DOMAIN text : text[k] = "."} IN
      IF ends = {} THEN [raws |-> raws, buffer |-> text]
      ELSE SplitBuffer(Drop(text, Least(ends)),
                       Append(raws, SubSeq(text, 1, Least(ends))))

\* The workers _trigger_generation starts for the texts started, the first
\* of them with index first.
NewWorkers(first, count) ==
    {[turn |-> turn, index |-> i] : i \in first..(first + count - 1)}
NewTriggered(first, started) ==
    [i \in 1..Len(started) |-> [index |-> first + i - 1, text |-> started[i]]]

\* add_text_stream with a text of k characters.
AddTextStream(k) ==
    /\ main_pc = "feed"
    /\ ~stream_flushed
    /\ k >= 1
    /\ stream_fed + k <= Len(stream)
    /\ LET split == SplitBuffer(mgr_buffer \o SubSeq(stream, stream_fed + 1,
                                                 stream_fed + k), <<>>)
           started == ProcessAndTrigger(split.raws, <<>>)
       IN /\ mgr_buffer' = split.buffer
          /\ sentence_count' = sentence_count + Len(started)
          /\ generation_threads' =
                generation_threads \cup NewWorkers(sentence_count + 1, Len(started))
          /\ workers' = workers \cup NewWorkers(sentence_count + 1, Len(started))
          /\ triggered' = triggered \o NewTriggered(sentence_count + 1, started)
    /\ stream_fed' = stream_fed + k
    /\ UNCHANGED <<stream, stream_flushed>>
    /\ UNCHANGED <<expected_index, play_queue, pending_audio, main_pc, pb_pc,
                   pb_cur, turn, released, dropped>>
    /\ UNCHANGED <<wsVars, storeVars, voiceVars, mgrVars, segVars, agentVars>>

\* flush: a remainder that is not blank is processed and the buffer cleared.
\* (The wait for the playback that follows changes nothing here.)
Flush ==
    /\ main_pc = "feed"
    /\ ~stream_flushed
    /\ stream_fed = Len(stream)
    /\ LET started == IF mgr_buffer # <<>> THEN ProcessAndTrigger(<<mgr_buffer>>, <<>>)
                      ELSE <<>>
       IN /\ sentence_count' = sentence_count + Len(started)
          /\ generation_threads' =
                generation_threads \cup NewWorkers(sentence_count + 1, Len(started))
          /\ workers' = workers \cup NewWorkers(sentence_count + 1, Len(started))
          /\ triggered' = triggered \o NewTriggered(sentence_count + 1, started)
    /\ mgr_buffer' = <<>>
    /\ stream_flushed' = TRUE
    /\ UNCHANGED <<stream, stream_fed>>
    /\ UNCHANGED <<expected_index, play_queue, pending_audio, main_pc, pb_pc,
                   pb_cur, turn, released, dropped>>
    /\ UNCHANGED <<wsVars, storeVars, voiceVars, mgrVars, segVars, agentVars>>

NextStream ==
    \/ \E k \in 1..MaxStream : AddTextStream(k)
    \/ Flush


(***************************************************************************)
(* Part I.  EmaAgent.initialize_narrative (agent/EmaAgent.py)              *)
(* Coroutines of one event loop: a coroutine runs without interruption     *)
(* from one await to the next.  initialize_narrative can be suspended in   *)
(* `async with self._narrative_init_lock` and in                           *)
(* `await self.narrative.initialize()`.                                    *)
(***************************************************************************)
Coroutines == {1, 2, 3}
\* None
NoNarrative == 0

InitInitCaller ==
    [ pc    |-> "idle",     \* idle / waiting / initializing / returned / raised
      calls |-> 0,          \* calls of initialize_narrative made so far
      obj   |-> 0,          \* the NarrativeMemory the coroutine is initializing
      saw   |-> 0,          \* history: self.narrative when the last call returned
      ready |-> FALSE ]     \* history: whether its initialize() had completed

InitAgent ==
    /\ narrative = NoNarrative
    /\ narrative_init_lock = NoLock
    /\ init_caller = [t \in Coroutines |-> InitInitCaller]
    /\ constructions = 0
    /\ initialized = {}
    /\ reloads = 0

\* Lines 159-170 with the lock held: return when narrative is set, otherwise
\* construct NarrativeMemory, assign it to self.narrative and await its
\* initialize().
UnderInitLock(t, calls) ==
    IF narrative # NoNarrative
    THEN /\ init_caller' = [init_caller EXCEPT ![t].pc = "returned",
                                               ![t].calls = calls,
                                               ![t].saw = narrative,
                                               ![t].ready = narrative \in initialized]
         /\ narrative_init_lock' = NoLock
         /\ UNCHANGED <<narrative, constructions>>
    ELSE /\ narrative' = constructions + 1
         /\ constructions' = constructions + 1
         /\ narrative_init_lock' = t
         /\ init_caller' = [init_caller EXCEPT ![t].pc = "initializing",
                                               ![t].calls = calls,
                                               ![t].obj = constructions + 1]

\* A coroutine calls initialize_narrative: the first check returns when
\* narrative is set; otherwise the lock is taken at once when it is free,
\* or the coroutine waits for it.
InitializeNarrative(t) ==
    /\ init_caller[t].pc \in {"idle", "returned", "raised"}
    /\ init_caller[t].calls < MaxCalls
    /\ IF narrative # NoNarrative
       THEN /\ init_caller' = [init_caller EXCEPT
                  ![t].pc = "returned",
                  ![t].calls = @ + 1,
                  ![t].saw = narrative,
                  ![t].ready = narrative \in initialized]
            /\ UNCHANGED <<narrative, narrative_init_lock, constructions>>
       ELSE IF narrative_init_lock # NoLock
       THEN /\ init_caller' = [init_caller EXCEPT ![t].pc = "waiting",
                                                  ![t].calls = @ + 1]
            /\ UNCHANGED <<narrative, narrative_init_lock, constructions>>
       ELSE UnderInitLock(t, init_caller[t].calls + 1)
    /\ UNCHANGED <<initialized, reloads>>
    /\ UNCHANGED <<ttsVars, wsVars, storeVars, voiceVars, mgrVars, segVars, txtVars>>

\* A waiting coroutine gets the lock.
LockGranted(t) ==
    /\ init_caller[t].pc = "waiting"
    /\ narrative_init_lock = NoLock
    /\ UnderInitLock(t, init_caller[t].calls)
    /\ UNCHANGED <<initialized, reloads>>
    /\ UNCHANGED <<ttsVars, wsVars, storeVars, voiceVars, mgrVars, segVars, txtVars>>

\* narrative.initialize() returns or raises; the lock is released and
\* self.narrative is left as it is in both cases.
InitializeDone(t, ok) ==
    /\ init_caller[t].pc = "initializing"
    /\ initialized' = IF ok THEN initialized \cup {init_caller[t].obj} ELSE initialized
    /\ narrative_init_lock' = NoLock
    /\ init_caller' = [init_caller EXCEPT
           ![t].pc = IF ok THEN "returned" ELSE "raised",
           ![t].saw = IF ok THEN narrative ELSE @,
           ![t].ready = IF ok THEN narrative \in initialized' ELSE @]
    /\ UNCHANGED <<narrative, constructions, reloads>>
    /\ UNCHANGED <<ttsVars, wsVars, storeVars, voiceVars, mgrVars, segVars, txtVars>>

\* reload_config: _init_components sets self.narrative = None.
ReloadConfig ==
    /\ reloads < MaxReloads
    /\ reloads' = reloads + 1
    /\ narrative' = NoNarrative
    /\ UNCHANGED <<narrative_init_lock, init_caller, constructions, initialized>>
    /\ UNCHANGED <<ttsVars, wsVars, storeVars, voiceVars, mgrVars, segVars, txtVars>>

\* Concurrent calls of initialize_narrative.
NextAgent ==
    \E t \in Coroutines :
        \/ InitializeNarrative(t)
        \/ LockGranted(t)
        \/ \E ok \in BOOLEAN : InitializeDone(t, ok)

\* The same with configuration reloads in between.
NextAgentReload ==
    \/ NextAgent
    \/ ReloadConfig

Init ==
    /\ InitTTS /\ InitWS /\ InitStore /\ InitVoice /\ InitMgrVoice /\ InitSeg
    /\ InitStream /\ InitAgent

SpecTurn == Init /\ [][NextTurn]_vars
\* Worker threads return (every request has a timeout) and the playback
\* thread keeps looping while is_running.
SpecTurnFair == SpecTurn /\ WF_vars(WorkerStep) /\ WF_vars(PlaybackStep)
SpecTTS == Init /\ [][NextTTS]_vars
Spec == SpecTTS

SpecWS == Init /\ [][NextWS]_vars
\* The event loop runs every task that is ready, and the producer, the
\* synthesis calls and the merge return.
SpecWSFair ==
    /\ SpecWS
    /\ WF_vars(ProducerStep(1))
    /\ WF_vars(WorkerTaskStep(1))
    /\ WF_vars(TaskStep(1))
SpecWS2 == Init /\ [][NextWS2]_vars
SpecWSClose == Init /\ [][NextWSClose]_vars
\* The event loop runs every task that is ready; synthesis calls return.
SpecWSCloseFair ==
    /\ SpecWSClose
    /\ WF_vars(ProducerStep(1))
    /\ WF_vars(WorkerTaskStepOrClosed(1))
    /\ WF_vars(TaskStep(1))
SpecSvc == Init /\ [][NextSvc]_vars
SpecStore == Init /\ [][NextStore]_vars
SpecVoice == Init /\ [][NextVoice]_vars
SpecMgrVoice == Init /\ [][NextMgrVoice]_vars
\* A turn of the WebSocket pipeline whose producer streams any reply.
InitAnyReply ==
    /\ InitTTS /\ InitWS /\ InitStore /\ InitVoice /\ InitMgrVoice /\ InitSegAny
    /\ InitStream /\ InitAgent
SpecSeg == InitAnyReply /\ [][NextSeg]_vars
\* A turn of the manager whose caller feeds any text.
InitAnyStream ==
    /\ InitTTS /\ InitWS /\ InitStore /\ InitVoice /\ InitMgrVoice /\ InitSeg
    /\ InitStreamAny /\ InitAgent
SpecStream == InitAnyStream /\ [][NextStream]_vars
SpecAgent == Init /\ [][NextAgentReload]_vars

(***************************************************************************)
(* Claims on TTSManager                                                    *)
(***************************************************************************)

\* C1: within one turn, whatever the order in which the generation workers
\* complete, the i-th entry released by the playback loop is the entry of
\* segment index i: files are played in strictly increasing index order and
\* none is played before every lower index has been played or skipped.
C1_InOrderPlayback ==
    \A i \in DOMAIN released : released[i].index = i

\* C1 witness: a file that completed early was kept in pending_audio and
\* played, from there, right after the file of the index before it.
C1_Witness ==
    \E i \in DOMAIN released :
        /\ i >= 2
        /\ released[i].file /\ released[i].via = "pending"
        /\ released[i - 1].file

\* C7: a failed segment does not block the turn: the cursor passes every
\* started segment (a failed one as a None placeholder that plays nothing),
\* and every successfully generated file is eventually played at its index.
C7_FailureDoesNotBlock ==
    \A j \in 1..MaxSentences :
        /\ (sentence_count >= j) ~> (Len(released) >= j)
        /\ (\E e \in play_queue : e.index = j /\ e.file)
              ~> (Len(released) >= j /\ released[j].index = j /\ released[j].file)

\* C7 witness: segment k failed and was skipped, and a later segment that
\* was generated successfully has been played.
C7_Witness ==
    \E k, j \in DOMAIN released :
        /\ k < j
        /\ released[k].index = k /\ ~released[k].file
        /\ released[j].index = j /\ released[j].file

Out(c) == ws[c].out
IsTerminal(m) == m.type \in {"done", "error"}

\* C2: the 'audio' messages of a turn are sent in the order in which their
\* sentences were enqueued, and none is sent after the turn's 'done'.
C2_AudioInOrderBeforeDone ==
    \A c \in Conns : \A i, j \in DOMAIN Out(c) :
        (i < j /\ Out(c)[i].rid = Out(c)[j].rid) =>
            /\ (Out(c)[i].type = "audio" /\ Out(c)[j].type = "audio")
                   => Out(c)[i].seg < Out(c)[j].seg
            /\ Out(c)[i].type = "done" => Out(c)[j].type # "audio"

\* C2 witness: a finished turn with two 'audio' messages and then 'done'.
C2_Witness ==
    \E c \in Conns : \E i, j, k \in DOMAIN Out(c) :
        /\ i < j /\ j < k
        /\ Out(c)[i].type = "audio" /\ Out(c)[j].type = "audio"
        /\ Out(c)[k].type = "done"
        /\ ws[c].running_task = "done"

\* C3: the sentences whose synthesis was started are the first ones
\* enqueued, in order; no synthesis starts in a state where the stop event
\* of the turn is set; a tail enqueued with the stop set is never synthesized.
SynthIsPrefix(c) ==
    /\ Len(ws[c].synth) <= ws[c].enq_count
    /\ \A i \in DOMAIN ws[c].synth : ws[c].synth[i] = i
    /\ ws[c].tail_after_stop # 0 =>
           \A i \in DOMAIN ws[c].synth : ws[c].synth[i] # ws[c].tail_after_stop
NoSynthAfterStop(c) ==
    StopSet(c) => Len(ws'[c].synth) <= Len(ws[c].synth)
C3_StopIsCancellationBoundary ==
    /\ [](\A c \in Conns : SynthIsPrefix(c))
    /\ [][\A c \in Conns : NoSynthAfterStop(c)]_vars

\* C3 witness: the stop was set while sentence 1 was being synthesized; that
\* call completed and its 'audio' was sent; the worker has exited, and the
\* tail enqueued after the stop was not synthesized.
C3_Witness ==
    \E c \in Conns :
        /\ StopSet(c)
        /\ ws[c].inflight_at_stop # 0
        /\ \E i \in DOMAIN Out(c) :
               Out(c)[i].type = "audio" /\ Out(c)[i].seg = ws[c].inflight_at_stop
        /\ ws[c].tail_after_stop # 0
        /\ ws[c].pc = "await_worker" /\ ws[c].worker_pc = "done"
        /\ Len(ws[c].synth) < ws[c].enq_count

\* C4: no two accepted and unanswered turns name the same session_id.
C4_OneActiveTurnPerSession ==
    \A c1, c2 \in Conns :
        (Running(c1) /\ Running(c2) /\ ws[c1].session_id = ws[c2].session_id)
            => c1 = c2

\* C5: an accepted message has no terminal message while its task runs,
\* exactly one ('done' or 'error') once the task has returned, and the task
\* does return.
Terminals(c) ==
    {i \in DOMAIN Out(c) :
        IsTerminal(Out(c)[i]) /\ Out(c)[i].rid = ws[c].running_request_id}
C5_ExactlyOneTerminal ==
    /\ [](\A c \in Conns : Running(c) => Terminals(c) = {})
    /\ [](\A c \in Conns :
             ws[c].running_task = "done" => Cardinality(Terminals(c)) = 1)
    /\ \A c \in Conns : Running(c) ~> (ws[c].running_task = "done")

\* C5 witness: a turn that delivered audio has returned with 'done'.
C5_Witness ==
    \E c \in Conns :
        /\ ws[c].running_task = "done"
        /\ \E i, j \in DOMAIN Out(c) :
               /\ i < j
               /\ Out(c)[i].type = "audio"
               /\ Out(c)[j].type = "done" /\ Out(c)[j].rid = ws[c].running_request_id

\* C6: a turn whose stop was acknowledged with 'stopping' reports
\* stopped = true in its 'done' message.
C6_AcknowledgedStopIsReported ==
    \A c \in Conns : \A i, j \in DOMAIN Out(c) :
        (Out(c)[i].type = "stopping" /\ Out(c)[j].type = "done"
            /\ Out(c)[i].rid = Out(c)[j].rid) => Out(c)[j].stopped

\* C9: a 'message' received while the task of the connection is running
\* changes nothing but the log, to which it adds one 'error' with the
\* request id of the new message.
C9_BusyRejectionChangesNothing ==
    [][\A c \in Conns :
          (msg_count' = msg_count + 1 /\ Running(c) /\ ws'[c] # ws[c]) =>
              ws'[c] = [ws[c] EXCEPT
                          !.out = Append(@, Msg("error", msg_count + 1, 0, FALSE))]]_vars

\* C9 witness: the running turn has sent audio and the log holds the 'error'
\* that answered a second message.
C9_Witness ==
    \E c \in Conns :
        /\ Running(c)
        /\ ws[c].audio_chunks # <<>>
        /\ \E i \in DOMAIN Out(c) :
               Out(c)[i].type = "error" /\ Out(c)[i].rid # ws[c].running_request_id

\* C10: in ChatService.websocket_chat a task that has returned has sent the
\* terminal message of its turn: 'done' when run_stream returned normally
\* ('error' when the request was empty or a call raised).
C10_SvcTurnEndsWithDone ==
    \A c \in Conns :
        ws[c].running_task = "done" =>
            \E i \in DOMAIN Out(c) :
                IsTerminal(Out(c)[i]) /\ Out(c)[i].rid = ws[c].running_request_id

\* C14: a synthesis call that returns None or raises sends no 'audio' and
\* leaves the turn running with audio_worker back at the queue; an 'error'
\* that ends a turn is never sent while the task only waits for audio_worker.
C14_SynthesisFailureIsLocal ==
    [][\A c \in Conns :
          LET rid == ws[c].running_request_id IN
          /\ (ws[c].worker_pc = "synth" /\ ws'[c].worker_pc # "synth") =>
                \/ /\ ws'[c].out = Append(ws[c].out,
                                          Msg("audio", rid, ws[c].sentence, FALSE))
                   /\ ws'[c].worker_pc = "wait"
                \/ /\ ws'[c].out = ws[c].out
                   /\ ws'[c].audio_chunks = ws[c].audio_chunks
                   /\ ws'[c].audio_queue = ws[c].audio_queue
                   /\ ws'[c].worker_pc = "wait"
                   /\ ws'[c].pc = ws[c].pc
                   /\ ws'[c].running_task = ws[c].running_task
                \/ /\ ws[c].pc \in {"stream", "returning"}
                   /\ ws'[c].out = Append(ws[c].out, Msg("error", rid, 0, FALSE))
          /\ (Running(c) /\ ws'[c].out = Append(ws[c].out, Msg("error", rid, 0, FALSE)))
                => ws[c].pc \in {"start", "stream", "returning", "merge"}]_vars

\* C14 witness: a turn has ended with 'done' after the synthesis of its first
\* sentence failed and the second sentence was delivered.
C14_Witness ==
    \E c \in Conns :
        /\ ws[c].running_task = "done"
        /\ \E i, j \in DOMAIN Out(c) :
               /\ i < j
               /\ Out(c)[i] = Msg("audio", ws[c].running_request_id, 2, FALSE)
               /\ Out(c)[j].type = "done"
               /\ Out(c)[j].rid = ws[c].running_request_id
        /\ \A i \in DOMAIN Out(c) : ~(Out(c)[i].type = "audio" /\ Out(c)[i].seg = 1)

\* C17: the synthesis calls outstanding at the same time (worker threads
\* that have not returned) never exceed the concurrency bound N.
C17_OutstandingCallsBounded == Cardinality(workers) <= SynthesisConcurrency

\* C18: whenever reset() returns it leaves expected_index = 1,
\* sentence_count = 0, an empty pending_audio and an empty play queue (the
\* first and the second of two calls in a row alike).
C18_ResetLeavesCleanState ==
    [][(main_pc = "reset_counters" /\ main_pc' = "feed") =>
          /\ expected_index' = 1
          /\ sentence_count' = 0
          /\ pending_audio' = {}
          /\ play_queue' = {}]_vars

(***************************************************************************)
(* Claims on the per-segment files                                         *)
(***************************************************************************)
\* C11: no per-segment file of a request is deleted before the grace period
\* after that request's merge has passed, whoever deletes it.
C11_GracePeriod == \A d \in deleted : ~d.early

\* C12: once merge_audio_files has run for a request, every per-segment file
\* of the request that still exists is on the list of a deletion timer.
C12_DeletionScheduledAfterMerge ==
    \A r \in Requests :
        job[r].merge_ran =>
            \A n \in Range(job[r].audio_chunks) :
                Exists(n) => \E tm \in timers : n \in tm.files

\* C13: the merged file of a request is the concatenation, in delivery
\* order, of the content announced by the request's 'audio' messages.
C13_MergedIsDeliveredInOrder ==
    \A r \in Requests :
        job[r].merged_ok => job[r].merged = job[r].delivered

(***************************************************************************)
(* Claims on the voice upload                                              *)
(***************************************************************************)
\* C15: no two threads of APITTSService upload at the same time, at most
\* one upload succeeds between two reset_voice calls, and a thread that was
\* handed a URI was handed the cached one.
C15_UploadOnceUnderLock ==
    /\ Cardinality({t \in Callers : caller[t].pc = "uploading"}) <= 1
    /\ epoch_uploads <= 1
    /\ \A t \in Callers :
         (caller[t].pc = "request" /\ caller[t].voice # NoVoice
             /\ caller[t].voice.epoch = reset_count) => caller[t].voice = voice_uri

\* C15 witness: one thread has uploaded, and another thread that had passed
\* the first check before got the cached URI under the lock.
C15_Witness ==
    /\ upload_count = 1
    /\ reset_count = 0
    /\ \A t \in Callers : caller[t].pc = "request" /\ caller[t].voice = voice_uri
    /\ voice_uri # NoVoice

\* C16: the workers of a TTSManager upload the reference audio at most once
\* and all send the same voice id.
C16_MgrUploadOnce ==
    /\ mgr_uploads <= 1
    /\ \A v, w \in GenWorkers :
         (gen_worker[v].pc \in {"sent", "done"} /\ gen_worker[w].pc \in {"sent", "done"})
             => gen_worker[v].voice = gen_worker[w].voice

\* C19: a synthesis call made after reset_voice has returned never uses a
\* URI stored before that reset, and the cache holds no such URI.
C19_FreshVoiceAfterReset ==
    /\ voice_uri # NoVoice => voice_uri.epoch = reset_count
    /\ \A t \in Callers :
         (caller[t].pc = "request" /\ caller[t].voice # NoVoice)
             => caller[t].voice.epoch >= caller[t].since

\* C19 witness: a call made after a reset_voice that followed an upload uses
\* the URI of a second upload.
C19_Witness ==
    \E t \in Callers :
        /\ caller[t].pc = "request"
        /\ caller[t].since >= 1
        /\ caller[t].voice # NoVoice
        /\ caller[t].voice.id >= 2
        /\ caller[t].voice.epoch = caller[t].since

(***************************************************************************)
(* Claims on the segmentation of the reply                                 *)
(***************************************************************************)
\* The characters of the reply that lie between an opening fence marker and
\* its closing marker, or behind an opening marker that is never closed.
Whole == [i \in 1..Len(reply) |-> i]
RECURSIVE FencedFrom(_)
FencedFrom(cursor) ==
    LET start == Find(Whole, cursor) IN
      IF start = 0 THEN {}
      ELSE LET end == Find(Whole, start + FenceLen) IN
             IF end = 0 THEN (start + FenceLen)..Len(reply)
             ELSE ((start + FenceLen)..(end - 1)) \cup FencedFrom(end + FenceLen)

\* C20: however the reply is split into tokens, no sentence enqueued for
\* synthesis holds a character of a fenced block.
C20_NoFencedTextIsSpoken ==
    \A i \in DOMAIN enqueued :
        \A k \in DOMAIN enqueued[i] : enqueued[i][k] \notin FencedFrom(1)

\* The concatenation of a sequence of sequences.
RECURSIVE Flatten(_)
Flatten(seqs) == IF seqs = <<>> THEN <<>> ELSE Head(seqs) \o Flatten(Tail(seqs))

\* The text outside fenced code of the part of the reply received so far.
VisibleSoFar == IF fed = 0 THEN <<>> ELSE ExtractNonCodeText(SubSeq(Whole, 1, fed)).visible

\* C21: however the reply is split into tokens, the raw sentences cut so far
\* followed by the sentence buffer are the visible text received so far, each
\* cut sentence ends with its first terminator, and the tail flush emits a
\* non-empty remainder as the last segment.
C21_SegmentationIsLossless ==
    /\ Flatten(raw_sentences) \o (IF flushed THEN <<>> ELSE sentence_buffer)
          = VisibleSoFar
    /\ \A i \in DOMAIN raw_sentences :
          LET sentence == raw_sentences[i]
              ends == {k \in DOMAIN sentence : reply[sentence[k]] = "."}
          IN (flushed /\ i = Len(raw_sentences)) \/ ends = {Len(sentence)}
    /\ (flushed /\ sentence_buffer # <<>>)
          => (raw_sentences # <<>>
              /\ raw_sentences[Len(raw_sentences)] = sentence_buffer)

(***************************************************************************)
(* Claims on the text intake of the TTSManager                             *)
(***************************************************************************)
\* A text that holds a letter, a digit or a CJK character.
Speakable(text) == \E k \in DOMAIN text : text[k] = "a"

\* C22: no text without a letter, digit or CJK character after cleaning is
\* given to a worker, and only speakable texts take a segment index.
C22_NoUnspeakableSegment ==
    /\ \A i \in DOMAIN triggered : Speakable(triggered[i].text)
    /\ sentence_count
          = Cardinality({i \in DOMAIN triggered : Speakable(triggered[i].text)})

(***************************************************************************)
(* Claims on APITTSService.generate                                        *)
(***************************************************************************)
\* C23: generate returns a path only for a 200 response that is not JSON
\* and holds at least 10 bytes; a call whose response is undersized returns
\* None, and has then removed the file it wrote.
C23_PathOnlyForValidAudio ==
    \A r \in Requests : \A c \in job[r].returned :
        /\ c.path # 0 => c.resp = "audio"
        /\ c.resp # "audio" => c.path = 0

(***************************************************************************)
(* Claims on the cursor of the TTSManager                                  *)
(***************************************************************************)
\* C24: in a turn (reset() is not running) no key of pending_audio is below
\* expected_index and expected_index is at most sentence_count + 1.
C24_CursorInvariant ==
    main_pc = "feed"
       => /\ \A k \in PendingKeys(pending_audio) : k >= expected_index
          /\ expected_index <= sentence_count + 1

\* The entries submitted to play_queue so far in this turn: those still in
\* the queue, those in pending_audio, those released and those discarded.
Entry(e) == [index |-> e.index, file |-> e.file, turn |-> e.turn]
Submitted ==
    {Entry(e) : e \in play_queue} \cup {Entry(e) : e \in pending_audio}
        \cup {Entry(released[i]) : i \in DOMAIN released}
        \cup {Entry(e) : e \in dropped}

\* C25: within one turn every index of 1..sentence_count either belongs to
\* a worker that is still running or has been submitted exactly once, and
\* no other index is submitted.
C25_IndicesSubmittedOnce ==
    /\ \A e \in Submitted : e.index \in 1..sentence_count
    /\ \A i \in 1..sentence_count :
          LET running == \E w \in workers : w.index = i
              entries == {e \in Submitted : e.index = i}
          IN IF running THEN entries = {} ELSE Cardinality(entries) = 1

\* C25 witness: three workers have ended, one with a file and one with the
\* placeholder, and indices 1, 2 and 3 have each been submitted.
C25_Witness ==
    /\ sentence_count = 3
    /\ workers = {}
    /\ {e.index : e \in Submitted} = {1, 2, 3}
    /\ \E e, f \in Submitted : e.file /\ ~f.file

(***************************************************************************)
(* Claims on the upload attempts of APITTSService                          *)
(***************************************************************************)
\* C26: an upload is started only when no attempt has been recorded since
\* the last reset_voice (_voice_uploaded is set by every attempt, failed or
\* not, and cleared by reset_voice only).
C26_FailedUploadNotRepeated ==
    [][upload_count' # upload_count => ~voice_uploaded]_vars

(***************************************************************************)
(* Claims on 'stop' and on the end of the connection                       *)
(***************************************************************************)
\* C27: a 'stop' received while no task of the connection is running sends
\* nothing and only lets go of a finished task; a stop event is set only
\* by a 'stop' received while its own task is running; a new task starts
\* with an event that is not set; and a producer reports stopped only when
\* the event of its own task is set.
C27_StopOnlyHitsRunningTurn ==
    /\ [][\A c \in Conns :
            /\ (stop_count' # stop_count /\ ~Running(c))
                  => ws'[c] = Recycle(ws[c])
            /\ (ws'[c].running_stop_event = "set" /\ ws[c].running_stop_event # "set")
                  => /\ Running(c) /\ stop_count' # stop_count
                     /\ ws'[c].running_request_id = ws[c].running_request_id
            /\ (ws'[c].running_request_id # ws[c].running_request_id
                   /\ ws'[c].running_task = "running")
                  => ws'[c].running_stop_event = "clear"]_vars
    /\ [](\A c \in Conns : ws[c].result_stopped => StopSet(c))

\* C27 witness: the one 'stop' has been received, and the second task of the
\* connection has received a token with its stop event not set.
C27_Witness ==
    /\ stop_count = 1
    /\ ws[1].running_request_id = 2
    /\ ws[1].running_task = "running"
    /\ ws[1].running_stop_event = "clear"
    /\ ws[1].tokens >= 1

\* C28: once the connection has ended, the task of the turn that was
\* running and its audio_worker both terminate.
C28_DisconnectEndsTurn ==
    \A c \in Conns :
        ws[c].closed ~> (ws[c].running_task # "running" /\ ws[c].worker_pc = "done")

(***************************************************************************)
(* Claims on the names of the per-segment files                            *)
(***************************************************************************)
\* C29: no two calls of generate, of the same request or of two requests
\* served at the same time, return the same path.
C29_ArtifactPathsDistinct ==
    \A r1, r2 \in Requests :
        \A a \in job[r1].returned : \A b \in job[r2].returned :
            (a.path # 0 /\ a.path = b.path) => (r1 = r2 /\ a.call = b.call)

(***************************************************************************)
(* Claims on EmaAgent.initialize_narrative                                 *)
(***************************************************************************)
\* C30: a call of initialize_narrative that has returned found (or left)
\* self.narrative set to an object whose initialize() has completed, and
\* without a reload in between NarrativeMemory is constructed at most once.
C30_NarrativeInitializedOnce ==
    /\ reloads = 0 => constructions <= 1
    /\ \A t \in Coroutines :
          (init_caller[t].pc = "returned" /\ reloads = 0) => init_caller[t].ready
====
